---- MODULE Spec2Model ----
(***************************************************************************)
(* Viewport synthesis of arcta/ocr-cnn-vit: the AgentView sampler          *)
(* (scripts/render.py, described in spec.md 4.2-4.3) and the three         *)
(* datasets that drive it: RotationDataset (Rotation.ipynb),               *)
(* SegmentationDataset (part_000) and MultitaskPretrainingDataset          *)
(* (part_001).                                                             *)
(*                                                                         *)
(* Reals are modelled in fixed point.  np.random.rand() is k/RandDen for   *)
(* k in 0..RandDen-1; a zoom exponent is an integer number of              *)
(* 1/ZoomDen units; source coordinates are resolved to 1/SubPix pixel.     *)
(***************************************************************************)
EXTENDS Integers, Sequences, FiniteSets, TLC

VARIABLES
    kind,       \* which dataset class this object is: "rot", "seg" or "mt"
    page,       \* index of the source page the dataset was built from
    cfg,        \* constructor arguments (unknown_fraction, ...)
    views,      \* the dataset's AgentViews: name -> [raster, bias, state]
    pc,         \* position inside __getitem__: "idle" or "loop"
    center,     \* local of __getitem__
    rotation,   \* local of __getitem__
    zoom,       \* local of __getitem__ (units of 1/ZoomDen)
    std,        \* local of __getitem__ (integer part of np.std)
    view,       \* local of __getitem__: the last patch rendered in the loop
    ret,        \* the value the last __getitem__ returned
    metered,    \* history: whether draws of the sampling loop are counted
    tries,      \* number of viewport draws of the current call (saturating)
    handed,     \* AgentView calls made by the last step: <<[view, op, state]>>
    av,         \* a stand-alone AgentView (specification SpecView)
    avOut,      \* patch returned by the last call on av
    avCall,     \* the last call on av: [op, state]
    avLast,     \* the last set_state on av that succeeded: [state, patch]
    avErr,      \* the failure the last call on av returned, or None
    running,    \* the worker whose dataset the variables above hold (or 0)
    peer,       \* the dataset of the worker that is not running
    net,        \* the network whose forward runs: [kind, depth, bridge]
    heap,       \* the Python lists forward has created: id -> list of tensors
    encoded,    \* local e of forward: id of the list the encoder returned
    embedding,  \* local embedding of MultitaskUNet.forward
    nnPc,       \* position inside forward
    nnOut,      \* what forward has computed so far
    decoded,    \* the last decoder call: [owner, given, before, popped, err]
    th,         \* threads drawing from av: thread -> [pc, s1, X, at, Y]
    lock,       \* the thread that holds the lock around its draw, or 0
    locking,    \* whether the threads take the lock around each draw
    gwArgs,     \* arguments of the get_alignment_weight call
    gwX,        \* local x of get_alignment_weight: the classes appended
    gwR,        \* local r of get_alignment_weight: the rotation last drawn
    gwPc,       \* position inside get_alignment_weight
    gwOut       \* what get_alignment_weight returned

dsVars == <<kind, page, cfg, views, pc, center, rotation, zoom, std, view,
            ret, metered, tries, handed>>
avVars == <<av, avOut, avCall, avLast, avErr>>
wkVars == <<running, peer>>
nnVars == <<net, heap, encoded, embedding, nnPc, nnOut, decoded>>
thVars == <<th, lock, locking>>
gwVars == <<gwArgs, gwX, gwR, gwPc, gwOut>>
vars == <<dsVars, avVars, wkVars, nnVars, thVars, gwVars>>

---------------------------------------------------------------------------
(* Bounds of the model *)

\* output patches are ViewSize x ViewSize (VIEW_SIZE = 128 in the notebooks)
ViewSize == 2
\* np.random.rand() takes the values k/RandDen, k in 0..RandDen-1
RandDen == 3
\* np.random.randint(0, 360) takes the multiples of RotStep below 360
RotStep == 72
\* the retry ceiling spec.md 4.5 asks of the sampling loop
RetryCeiling == 3
\* draws counted per call before the counter saturates
MaxTries == RetryCeiling + 1

None == "none"
\* a local of __getitem__ that is not bound
NoCenter == <<>>
NoNumber == 0 - 100000
Rand == 0 .. (RandDen - 1)
ZoomDen == 2 * RandDen

---------------------------------------------------------------------------
(* Fixed-point arithmetic used by the viewport transform *)

TrigScale == 1000
ZoomScale == 256
SubPix == 16

\* 1000 * sin(d degrees), d = 0..90
SinTable ==
  << 0, 17, 35, 52, 70, 87, 105, 122, 139, 156, 174, 191, 208,
     225, 242, 259, 276, 292, 309, 326, 342, 358, 375, 391, 407, 423,
     438, 454, 469, 485, 500, 515, 530, 545, 559, 574, 588, 602, 616,
     629, 643, 656, 669, 682, 695, 707, 719, 731, 743, 755, 766, 777,
     788, 799, 809, 819, 829, 839, 848, 857, 866, 875, 883, 891, 899,
     906, 914, 921, 927, 934, 940, 946, 951, 956, 961, 966, 970, 974,
     978, 982, 985, 988, 990, 993, 995, 996, 998, 999, 999, 1000, 1000 >>

\* the angle the transform uses: rotation wraps at 360 degrees
WrapNoMod(r) == IF r < 0 THEN 0 ELSE IF r > 359 THEN 359 ELSE r
Wrap(r) == r % 360

Sin(r) ==
    LET a == Wrap(r)
    IN  IF a <= 90 THEN SinTable[a + 1]
        ELSE IF a <= 180 THEN SinTable[180 - a + 1]
        ELSE IF a <= 270 THEN 0 - SinTable[a - 180 + 1]
        ELSE 0 - SinTable[360 - a + 1]

Cos(r) == Sin(Wrap(r) + 90)

Pow2Int(n) == IF n = 0 THEN 1 ELSE IF n = 1 THEN 2 ELSE IF n = 2 THEN 4
              ELSE IF n = 3 THEN 8 ELSE IF n = 4 THEN 16 ELSE 32

\* ZoomScale * 2^(fn/fd) for 0 <= fn < fd (quadratic fit of 2^f on [0,1))
Pow2Frac(fn, fd) ==
    ZoomScale + (ZoomScale * fn * (657 * fd + 343 * fn)) \div (1000 * fd * fd)

\* ZoomScale * 2^(-zoom): field of view = view_size * 2^(-zoom)
FieldScale(z) ==
    LET e == 0 - z
        q == e \div ZoomDen
        f == e % ZoomDen
    IN  IF q >= 0 THEN Pow2Frac(f, ZoomDen) * Pow2Int(q)
        ELSE Pow2Frac(f, ZoomDen) \div Pow2Int(0 - q)

---------------------------------------------------------------------------
(* AgentView (scripts/render.py; spec.md 4.1 - 4.3) *)

Height(raster) == Len(raster)
WidthLastAxis(raster) ==
    IF Len(raster[1][1]) > 1 THEN Len(raster[1][1]) ELSE Len(raster[1])
Width(raster) == Len(raster[1])
Channels(raster) == Len(raster[1][1])

\* twice space.center = (H/2, W/2)
SpaceCenter2(raster) == <<Height(raster), Width(raster)>>

\* source coordinate (in 1/SubPix pixels) of output pixel (i, j), 0-based:
\* offset from the patch centre, scaled by 2^(-zoom), rotated by -rotation,
\* translated by center
Transform(c, cos, sin, s, oi, oj) ==
    << c[1] * SubPix
         + ((oi * cos + oj * sin) * s * SubPix) \div (2 * TrigScale * ZoomScale),
       c[2] * SubPix
         + ((oj * cos - oi * sin) * s * SubPix) \div (2 * TrigScale * ZoomScale) >>

SourceCoord(c, r, z, i, j) ==
    Transform(c, Cos(r), Sin(r), FieldScale(z), 2 * i - ViewSize, 2 * j - ViewSize)

InCanvas(raster, p) ==
    /\ p[1] >= 0 /\ p[1] < Height(raster) * SubPix
    /\ p[2] >= 0 /\ p[2] < Width(raster) * SubPix

\* the raster sample at integer (y, x), 0-based; bias beyond the grid
Sample(a, y, x, ch) ==
    IF y >= 0 /\ y < Height(a.raster) /\ x >= 0 /\ x < Width(a.raster)
    THEN a.raster[y + 1][x + 1][ch]
    ELSE a.bias

\* bilinear interpolation over the four nearest source samples: (y0, x0)
\* is the sample above-left of the coordinate, (fy, fx) the offset from it
Interpolate(a, y0, fy, x0, fx, ch) ==
    ( Sample(a, y0, x0, ch) * (SubPix - fy) * (SubPix - fx)
    + Sample(a, y0, x0 + 1, ch) * (SubPix - fy) * fx
    + Sample(a, y0 + 1, x0, ch) * fy * (SubPix - fx)
    + Sample(a, y0 + 1, x0 + 1, ch) * fy * fx ) \div (SubPix * SubPix)

BilinearCentred(a, p, ch) ==
    Interpolate(a, (p[1] - SubPix \div 2) \div SubPix,
                   (p[1] - SubPix \div 2) % SubPix,
                   (p[2] - SubPix \div 2) \div SubPix,
                   (p[2] - SubPix \div 2) % SubPix, ch)
Bilinear(a, p, ch) ==
    Interpolate(a, p[1] \div SubPix, p[1] % SubPix,
                   p[2] \div SubPix, p[2] % SubPix, ch)

PixelClamped(a, p, ch) ==
    LET q == << IF p[1] < 0 THEN 0
                ELSE IF p[1] >= Height(a.raster) * SubPix
                     THEN (Height(a.raster) - 1) * SubPix ELSE p[1],
                IF p[2] < 0 THEN 0
                ELSE IF p[2] >= Width(a.raster) * SubPix
                     THEN (Width(a.raster) - 1) * SubPix ELSE p[2] >>
    IN  (Sample(a, q[1] \div SubPix, q[2] \div SubPix, ch) * 1)
Pixel(a, p, ch) ==
    IF InCanvas(a.raster, p) THEN Bilinear(a, p, ch) ELSE a.bias

\* AgentView.render(center, rotation, zoom) -> ViewPatch
Render(a, c, r, z) ==
    [i \in 1 .. ViewSize |->
        [j \in 1 .. ViewSize |->
            [ch \in 1 .. Channels(a.raster) |->
                Pixel(a, SourceCoord(c, r, z, i - 1, j - 1), ch)]]]

ViewportState(c, r, z) == [center |-> c, rotation |-> r, zoom |-> z]

\* AgentView.set_state: render, and record the state as the last state
SetStateMemoStale(a, c, r, z) == a
SetStateMemo(a, c, r, z) == [a EXCEPT !.state = ViewportState(c, r, z)]

\* AgentView.apply_state(state): re-render a recorded state
ApplyStateNoZoom(a, s) == Render(a, s.center, s.rotation, 0 - ZoomDen)
ApplyState(a, s) == Render(a, s.center, s.rotation, s.zoom)

\* AgentView(image, view_size, bias): bias None derives it from the raster
MinOf(S) == CHOOSE m \in S : \A x \in S : m <= x
DeriveBias(raster) ==
    MinOf({ raster[y][x][ch] : y \in 1 .. Height(raster),
                               x \in 1 .. Width(raster),
                               ch \in 1 .. Channels(raster) })

\* what a call hands back when it returns no patch
NoPatch == <<>>

\* the last-state memo before any set_state
NoState == [unset |-> TRUE]

AgentView(raster, bias) == [raster |-> raster, bias |-> bias, state |-> NoState]

\* a double holds 2^e for -DoubleMinExp < e < DoubleMaxExp: beyond that
\* 2^(-zoom) is inf or 0 and the field of view view_size * 2^(-zoom) is
\* non-finite or non-positive
DoubleMaxExp == 1024
DoubleMinExp == 1075
Degenerate(z) ==
    \/ 0 - z >= DoubleMaxExp * ZoomDen
    \/ z >= DoubleMinExp * ZoomDen

\* the zoom of the nearest state with a finite positive field of view
ClampZoom(z) ==
    IF 0 - z >= DoubleMaxExp * ZoomDen THEN 0 - 2 * ZoomDen
    ELSE IF z >= DoubleMinExp * ZoomDen THEN 0
    ELSE z

\* what a call that renders state (c, r, z) hands back: the patch, or the
\* failure and no patch
RenderOutcomeClamped(a, c, r, z) ==
    [err |-> None, out |-> Render(a, c, r, ClampZoom(z))]
RenderOutcome(a, c, r, z) ==
    IF Degenerate(z)
    THEN [err |-> "DegenerateFieldOfView", out |-> NoPatch]
    ELSE [err |-> None, out |-> Render(a, c, r, z)]

\* the view after set_state(c, r, z): a failed call records nothing
SetStateViewInPlace(a, c, r, z) ==
    IF Degenerate(z) THEN a
    ELSE [SetStateMemo(a, c, r, z) EXCEPT !.raster[1][1] =
              Render(a, c, r, z)[1][1]]
SetStateView(a, c, r, z) ==
    IF Degenerate(z) THEN a ELSE SetStateMemo(a, c, r, z)

\* AgentView(image, view_size, bias): the view, or the failure
ConstructOutcome(raster, view_size, bias) ==
    IF view_size <= 0
    THEN [err |-> "InvalidViewport", view |-> None]
    ELSE [err |-> None, view |-> AgentView(raster, bias)]

---------------------------------------------------------------------------
(* Source pages: the decoded bitmap, its noisy version and its class mask *)

\* a 2-D grid as a one-channel raster
Gray(m) == [y \in 1 .. Len(m) |-> [x \in 1 .. Len(m[1]) |-> <<m[y][x]>>]]

\* 255 - orig
Invert(m) == [y \in 1 .. Len(m) |-> [x \in 1 .. Len(m[1]) |-> 255 - m[y][x]]]

\* len(ORDER): background plus text, input-space, table-outlines
NumClasses == 4

\* (np.eye(len(ORDER))[mask][:,:,1:] > 0) * 255
OneHot(mask) ==
    [y \in 1 .. Len(mask) |-> [x \in 1 .. Len(mask[1]) |->
        [ch \in 1 .. (NumClasses - 1) |-> IF mask[y][x] = ch THEN 255 ELSE 0]]]

Pages ==
  << \* a page with one faint column at its right edge
     [ orig  |-> << <<255, 255, 255, 200>>, <<255, 255, 255, 200>>,
                    <<255, 255, 255, 200>>, <<255, 255, 255, 200>> >>,
       noisy |-> << <<50, 50, 50, 30>>, <<50, 50, 50, 30>>,
                    <<50, 50, 50, 30>>, <<50, 50, 50, 30>> >>,
       mask  |-> << <<0, 0, 0, 3>>, <<0, 0, 0, 3>>,
                    <<0, 0, 0, 3>>, <<0, 0, 0, 3>> >> ],
     \* a blank page
     [ orig  |-> << <<255, 255, 255, 255>>, <<255, 255, 255, 255>>,
                    <<255, 255, 255, 255>>, <<255, 255, 255, 255>> >>,
       noisy |-> << <<50, 50, 50, 50>>, <<50, 50, 50, 50>>,
                    <<50, 50, 50, 50>>, <<50, 50, 50, 50>> >>,
       mask  |-> << <<0, 0, 0, 0>>, <<0, 0, 0, 0>>,
                    <<0, 0, 0, 0>>, <<0, 0, 0, 0>> >> ],
     \* a 3 x 5 page with text over an input field
     [ orig  |-> << <<255, 0, 255, 0, 255>>, <<255, 0, 0, 0, 255>>,
                    <<255, 180, 180, 180, 255>> >>,
       noisy |-> << <<90, 10, 80, 20, 90>>, <<85, 5, 15, 10, 95>>,
                    <<90, 60, 70, 65, 80>> >>,
       mask  |-> << <<0, 1, 0, 1, 0>>, <<0, 1, 1, 1, 0>>,
                    <<0, 2, 2, 2, 0>> >> ] >>

\* values np.random.randint(100) takes for the bias of the input view
BiasDraws == {0, 50}

\* patches make_negative_sample(view_size) returns
NegativeSamples ==
    { [i \in 1 .. ViewSize |-> [j \in 1 .. ViewSize |-> <<v>>]] : v \in {128} }

Zeros == [i \in 1 .. ViewSize |-> [j \in 1 .. ViewSize |-> 0]]

---------------------------------------------------------------------------
(* Pieces of the datasets' __getitem__ *)

\* integer part of np.std(patch) over all of its elements
PatchValues(p) ==
    [n \in 1 .. (ViewSize * ViewSize * Len(p[1][1])) |->
        LET m  == n - 1
            ch == m % Len(p[1][1])
            j  == (m \div Len(p[1][1])) % ViewSize
            i  == m \div (Len(p[1][1]) * ViewSize)
        IN  p[i + 1][j + 1][ch + 1]]

RECURSIVE SumSeq(_)
SumSeq(s) == IF s = <<>> THEN 0 ELSE Head(s) + SumSeq(Tail(s))

\* n^2 * variance of the values xs
ScaledVariance(xs) ==
    Len(xs) * SumSeq([k \in 1 .. Len(xs) |-> xs[k] * xs[k]])
        - SumSeq(xs) * SumSeq(xs)

IntSqrt(v) == CHOOSE r \in 0 .. 255 : r * r <= v /\ (r + 1) * (r + 1) > v

StdOf(xs) == IntSqrt(ScaledVariance(xs) \div (Len(xs) * Len(xs)))

Std(p) == StdOf(PatchValues(p))

\* the acceptance threshold of "while std < 10"
StdThreshold == 10

\* int(np.array(space.center) * (num/den))
ScaledCenterFull(raster, num1, num2, den) ==
    << (SpaceCenter2(raster)[1] * num1) \div den,
       (SpaceCenter2(raster)[2] * num2) \div den >>
ScaledCenter(raster, num1, num2, den) ==
    << (SpaceCenter2(raster)[1] * num1) \div (2 * den),
       (SpaceCenter2(raster)[2] * num2) \div (2 * den) >>

\* np.random.randint(0, 360): the upper end is excluded
FreeRotationsInclusive == { r \in 0 .. 360 : r % RotStep = 0 }
FreeRotations == { r \in 0 .. 359 : r % RotStep = 0 }

\* classes of the rotation heads: get_head(360) of the rotation model,
\* get_head(361) of the pretraining model
RotationClasses == 360
PretrainingRotationClasses == 361
\* np.random.choice([0, 90, 180, 270])
AlignedRotations == {0, 90, 180, 270}

\* (view/255. > 0.25).astype(int), per channel of one pixel
Binarize(px) == [ch \in 1 .. Len(px) |-> IF 4 * px[ch] > 255 THEN 1 ELSE 0]

\* np.argmax(v): the 0-based index of the first maximum of v
ArgMaxLast(v) ==
    (CHOOSE k \in 1 .. Len(v) :
        /\ \A m \in 1 .. Len(v) : v[m] <= v[k]
        /\ \A m \in (k + 1) .. Len(v) : v[m] < v[k]) - 1
ArgMax(v) ==
    (CHOOSE k \in 1 .. Len(v) :
        /\ \A m \in 1 .. Len(v) : v[m] <= v[k]
        /\ \A m \in 1 .. (k - 1) : v[m] < v[k]) - 1

\* Y1 = np.zeros((view_size, view_size, len(ORDER))); Y1[:,:,1:] = the
\* binarized mask view; Y1 = np.argmax(Y1, axis=2)
SegmentationTarget(p) ==
    [i \in 1 .. ViewSize |-> [j \in 1 .. ViewSize |->
        ArgMax(<<0>> \o Binarize(p[i][j]))]]

\* Y2: view/255. >= 0.25, squeezed
ValueTarget(p) ==
    [i \in 1 .. ViewSize |-> [j \in 1 .. ViewSize |->
        IF 4 * p[i][j][1] >= 255 THEN 1 ELSE 0]]

Call(name, op, c, r, z) == [view |-> name, op |-> op, state |-> ViewportState(c, r, z)]

NoLocals ==
    /\ center' = NoCenter /\ rotation' = NoNumber /\ zoom' = NoNumber
    /\ std' = NoNumber /\ view' = NoPatch

Bump(n) == IF metered /\ n < MaxTries THEN n + 1 ELSE n

---------------------------------------------------------------------------
(* Construction *)

\* tenths: rand() < 0.2 in SegmentationDataset.__getitem__
SegUnknownTenths == 2
\* tenths: aligned_fraction = 0.2
AlignedTenths == 2
\* max_skew = 3. (the default of __init__; __getitem__ reads the bare name
\* max_skew, modelled as that default)
MaxSkew == 3
\* unknown_fraction values the pretraining dataset is built with (tenths):
\* the default 0. and the 0.1 of get_alignment_weight
UnknownTenths == {0, 1}

\* alignment_threshold = 0
AlignmentThreshold == 0
\* alignment_threshold values the pretraining dataset is built with
\* (degrees): the default and a tolerance of 18 degrees
AlignmentThresholds == { AlignmentThreshold, 18 }

\* rand() = k/RandDen is below t/10
Below(k, t) == 10 * k < t * RandDen

RotationDatasetInit(p) ==
    [nav |-> AgentView(Gray(Invert(Pages[p].orig)),
                       DeriveBias(Gray(Invert(Pages[p].orig))))]

MultitaskViews(p, b) ==
    [view         |-> AgentView(Gray(Pages[p].noisy), b),
     segmentation |-> AgentView(OneHot(Pages[p].mask), DeriveBias(OneHot(Pages[p].mask))),
     value        |-> AgentView(Gray(Invert(Pages[p].orig)),
                                DeriveBias(Gray(Invert(Pages[p].orig))))]

NoView == [raster |-> <<>>, bias |-> 0, state |-> NoState]
NoCall == [op |-> None]
NoRet == [kind |-> None]
NoPeer == [kind |-> None]

\* a single dataset: no second worker
WkIdle == running = 0 /\ peer = NoPeer

\* a tensor that was never computed
NoTensor == [op |-> None]
NoNet == [kind |-> None]
NoDecode == [owner |-> None]

\* what forward returns: the field out for UNet, the other four for the
\* multitask networks
NoOutputs ==
    [out |-> NoTensor, segmentation |-> NoTensor, value |-> NoTensor,
     alignment |-> NoTensor, rotation |-> NoTensor]

NoArgs == [threshold |-> 0, unknown |-> 0, aligned |-> 0]
NoWeights == [nan |-> FALSE, w |-> <<>>]

\* get_alignment_weight is not running
GwIdle ==
    /\ gwArgs = NoArgs /\ gwX = <<>> /\ gwR = NoNumber
    /\ gwPc = "idle" /\ gwOut = NoWeights

\* no network runs, no thread draws, no weight estimate
NnIdle ==
    /\ net = NoNet /\ heap = <<>> /\ encoded = 0 /\ embedding = NoTensor
    /\ nnPc = "idle" /\ nnOut = NoOutputs /\ decoded = NoDecode
    /\ th = <<>> /\ lock = 0 /\ locking = FALSE
    /\ GwIdle

AvIdle ==
    /\ av = NoView /\ avOut = NoPatch /\ avCall = NoCall /\ avLast = NoCall
    /\ avErr = None

Construct ==
    /\ kind \in {"rot", "seg", "mt"}
    /\ \/ /\ kind = "rot"
          /\ cfg = [unknown |-> 0]
          /\ views = RotationDatasetInit(page)
       \/ /\ kind = "seg"
          /\ cfg = [unknown |-> SegUnknownTenths]
          /\ \E b \in BiasDraws : views = MultitaskViews(page, b)
       \/ /\ kind = "mt"
          /\ \E u \in UnknownTenths, t \in AlignmentThresholds :
                cfg = [unknown |-> u, threshold |-> t]
          /\ \E b \in BiasDraws : views = MultitaskViews(page, b)
    /\ pc = "idle"
    /\ center = NoCenter /\ rotation = NoNumber /\ zoom = NoNumber
    /\ std = NoNumber /\ view = NoPatch
    /\ ret = NoRet
    /\ tries = 0
    /\ handed = <<>>
    /\ AvIdle
    /\ WkIdle
    /\ NnIdle

Init ==
    /\ page \in 1 .. Len(Pages)
    /\ metered = FALSE
    /\ Construct

---------------------------------------------------------------------------
(* RotationDataset.__getitem__ *)

\* Y2: -(360. - rotation)/180. if rotation > 180 else rotation/180.,
\* as a number of 1/180
RegressionTargetFolded(r) == IF r > 180 THEN 360 - r ELSE r
RegressionTarget(r) == IF r > 180 THEN 0 - (360 - r) ELSE r

RotSample(obs, c, r, z) ==
    [kind |-> "rot", doc |-> TRUE, X |-> obs, Y1 |-> r,
     Y2 |-> RegressionTarget(r),
     at |-> [X |-> ViewportState(c, r, z)]]

RotBegin ==
    /\ kind = "rot" /\ pc = "idle"
    /\ std' = 0 /\ tries' = 0 /\ pc' = "loop"
    /\ ret' = NoRet
    /\ handed' = <<>>
    /\ UNCHANGED <<kind, page, cfg, views, center, rotation, zoom, view, metered>>
    /\ UNCHANGED <<avVars, wkVars, nnVars, thVars, gwVars>>

\* the states one pass of the loop can draw: rotation = randint(0, 360),
\* center = space.center * (0.25 + rand(2) * 0.5), zoom = -1 - rand() * 2
RotViewports(raster) ==
    { ViewportState(ScaledCenter(raster, RandDen + 2 * k1, RandDen + 2 * k2,
                                 4 * RandDen),
                    r, 0 - (2 * RandDen) - 4 * k3) :
          r \in FreeRotations, k1 \in Rand, k2 \in Rand, k3 \in Rand }

\* one pass of the loop, drawing state s
RotDrawAt(s) ==
    /\ kind = "rot" /\ pc = "loop" /\ std < StdThreshold
    /\ handed' = <<Call("nav", "render", s.center, s.rotation, s.zoom)>>
    /\ \E observation \in {Render(views.nav, s.center, s.rotation, s.zoom)} :
             /\ rotation' = s.rotation /\ center' = s.center /\ zoom' = s.zoom
             /\ view' = observation
             /\ std' = Std(observation)
    /\ tries' = Bump(tries)
    /\ UNCHANGED <<kind, page, cfg, views, pc, ret, metered>>
    /\ UNCHANGED <<avVars, wkVars, nnVars, thVars, gwVars>>

RotDraw ==
    /\ kind = "rot"
    /\ \E s \in RotViewports(views.nav.raster) : RotDrawAt(s)

RotReturn ==
    /\ kind = "rot" /\ pc = "loop" /\ std >= StdThreshold
    /\ ret' = RotSample(view, center, rotation, zoom)
    /\ pc' = "idle"
    /\ handed' = <<>>
    /\ NoLocals
    /\ UNCHANGED <<kind, page, cfg, views, metered, tries>>
    /\ UNCHANGED <<avVars, wkVars, nnVars, thVars, gwVars>>

---------------------------------------------------------------------------
(* SegmentationDataset.__getitem__ *)

\* int(x) of Python truncates towards zero
TruncDiv(a, b) == IF a >= 0 THEN a \div b ELSE 0 - ((0 - a) \div b)

\* the rand() of the skew on a grid twice as fine as the other draws, so that
\* the draws above 1 - 1/max_skew are among them
SkewDen == 2 * RandDen
SkewRand == 0 .. (SkewDen - 1)

\* int(np.random.rand() * max_skew - max_skew) for rand() = k/SkewDen
SkewWide(k) == TruncDiv(2 * MaxSkew * k - 2 * MaxSkew * SkewDen, SkewDen)
Skew(k) == TruncDiv(MaxSkew * k - MaxSkew * SkewDen, SkewDen)

\* return X, (Y, Y, 0) with Y = np.zeros((view_size, view_size))
SegNonDocSample(x) ==
    [kind |-> "seg", doc |-> FALSE, X |-> x,
     Y1 |-> Zeros, Y2 |-> Zeros, Y3 |-> 0]

SegNonDoc ==
    /\ kind = "seg" /\ pc = "idle"
    /\ \E k \in Rand : Below(k, cfg.unknown)
    /\ \E x \in NegativeSamples : ret' = SegNonDocSample(x)
    /\ handed' = <<>>
    /\ UNCHANGED <<kind, page, cfg, views, pc, center, rotation, zoom, std,
                   view, metered, tries>>
    /\ UNCHANGED <<avVars, wkVars, nnVars, thVars, gwVars>>

SegBegin ==
    /\ kind = "seg" /\ pc = "idle"
    /\ \E k \in Rand : ~Below(k, cfg.unknown)
    /\ std' = 0 /\ tries' = 0 /\ pc' = "loop"
    /\ ret' = NoRet
    /\ handed' = <<>>
    /\ UNCHANGED <<kind, page, cfg, views, center, rotation, zoom, view, metered>>
    /\ UNCHANGED <<avVars, wkVars, nnVars, thVars, gwVars>>

\* the states random_viewport returns: center = space.center * (0.1 +
\* rand() * 1.8), rotation one of 0, 90, 180, 270, zoom = -1 - rand() * 2.5
SegViewports(raster) ==
    { ViewportState(ScaledCenter(raster, RandDen + 18 * k1, RandDen + 18 * k1,
                                 10 * RandDen),
                    r, 0 - (2 * RandDen) - 5 * k3) :
          k1 \in Rand, r \in AlignedRotations, k3 \in Rand }

\* one pass of the loop, drawing state s
SegDrawAt(s) ==
    /\ kind = "seg" /\ pc = "loop" /\ std < StdThreshold
    /\ handed' = <<Call("view", "set_state", s.center, s.rotation, s.zoom)>>
    /\ \E patch \in {Render(views.view, s.center, s.rotation, s.zoom)} :
             /\ center' = s.center /\ rotation' = s.rotation /\ zoom' = s.zoom
             /\ views' = [views EXCEPT !.view =
                             SetStateMemo(@, s.center, s.rotation, s.zoom)]
             /\ view' = patch
             /\ std' = Std(patch)
    /\ tries' = Bump(tries)
    /\ UNCHANGED <<kind, page, cfg, pc, ret, metered>>
    /\ UNCHANGED <<avVars, wkVars, nnVars, thVars, gwVars>>

SegDraw ==
    /\ kind = "seg"
    /\ \E s \in SegViewports(views.view.raster) : SegDrawAt(s)

\* what __getitem__ returns once the loop has accepted (c, r, z) and the
\* skew rand() was k; "at" is the state each returned patch was rendered at
SegSampleLateSkew(vs, c, r, z, k) ==
    [kind |-> "seg", doc |-> TRUE,
     X  |-> Render(vs.view, c, r, z),
     Y1 |-> SegmentationTarget(Render(vs.segmentation, c, r + Skew(k), z)),
     Y2 |-> ValueTarget(Render(vs.value, c, r + Skew(k), z)),
     Y3 |-> r \div 90 + 1,
     at |-> [X  |-> ViewportState(c, r, z),
             Y1 |-> ViewportState(c, r + Skew(k), z),
             Y2 |-> ViewportState(c, r + Skew(k), z)]]
SegSampleLabelAfterSkew(vs, c, r, z, k) ==
    [kind |-> "seg", doc |-> TRUE,
     X  |-> Render(vs.view, c, r + Skew(k), z),
     Y1 |-> SegmentationTarget(Render(vs.segmentation, c, r + Skew(k), z)),
     Y2 |-> ValueTarget(Render(vs.value, c, r + Skew(k), z)),
     Y3 |-> (r + Skew(k)) \div 90 + 1,
     at |-> [X  |-> ViewportState(c, r + Skew(k), z),
             Y1 |-> ViewportState(c, r + Skew(k), z),
             Y2 |-> ViewportState(c, r + Skew(k), z)]]
SegSample(vs, c, r, z, k) ==
    [kind |-> "seg", doc |-> TRUE,
     X  |-> Render(vs.view, c, r + Skew(k), z),
     Y1 |-> SegmentationTarget(Render(vs.segmentation, c, r + Skew(k), z)),
     Y2 |-> ValueTarget(Render(vs.value, c, r + Skew(k), z)),
     Y3 |-> r \div 90 + 1,
     at |-> [X  |-> ViewportState(c, r + Skew(k), z),
             Y1 |-> ViewportState(c, r + Skew(k), z),
             Y2 |-> ViewportState(c, r + Skew(k), z)]]

\* the three set_state calls after the skew: self.view, self.segmentation and
\* self.value each record (c, r, z) as their last state
SegMemosTargetsOnly(vs, c, r, z) ==
    [vs EXCEPT !.segmentation = SetStateMemo(@, c, r, z),
               !.value = SetStateMemo(@, c, r, z)]
SegMemos(vs, c, r, z) ==
    [n \in DOMAIN vs |-> SetStateMemo(vs[n], c, r, z)]

SegReturn ==
    /\ kind = "seg" /\ pc = "loop" /\ std >= StdThreshold
    /\ \E k \in SkewRand :
         /\ ret' = SegSample(views, center, rotation, zoom, k)
         /\ views' = SegMemos(views, center, rotation + Skew(k), zoom)
         /\ handed' = << Call("view", "set_state", center, rotation + Skew(k), zoom),
                         Call("segmentation", "set_state", center, rotation + Skew(k), zoom),
                         Call("value", "set_state", center, rotation + Skew(k), zoom) >>
    /\ pc' = "idle"
    /\ NoLocals
    /\ UNCHANGED <<kind, page, cfg, metered, tries>>
    /\ UNCHANGED <<avVars, wkVars, nnVars, thVars, gwVars>>

---------------------------------------------------------------------------
(* MultitaskPretrainingDataset.__getitem__ *)

Min2(a, b) == IF a <= b THEN a ELSE b

\* d = rotation % 90; Y3 = int(min(d, 90 - d) <= self.alignment_threshold) + 1
AlignmentTargetLowerOnly(r) ==
    IF r % 90 <= cfg.threshold THEN 2 ELSE 1
AlignmentTarget(r) ==
    IF Min2(r % 90, 90 - (r % 90)) <= cfg.threshold THEN 2 ELSE 1

\* return X, (Y, Y, 0, 360) with Y = np.zeros((view_size, view_size))
MtNonDocSampleRotationZero(x) ==
    [kind |-> "mt", doc |-> FALSE, X |-> x,
     Y1 |-> Zeros, Y2 |-> Zeros, Y3 |-> 0, Y4 |-> 0]
MtNonDocSample(x) ==
    [kind |-> "mt", doc |-> FALSE, X |-> x,
     Y1 |-> Zeros, Y2 |-> Zeros, Y3 |-> 0, Y4 |-> 360]

MtNonDoc ==
    /\ kind = "mt" /\ pc = "idle"
    /\ \E k \in Rand : Below(k, cfg.unknown)
    /\ \E x \in NegativeSamples : ret' = MtNonDocSample(x)
    /\ handed' = <<>>
    /\ UNCHANGED <<kind, page, cfg, views, pc, center, rotation, zoom, std,
                   view, metered, tries>>
    /\ UNCHANGED <<avVars, wkVars, nnVars, thVars, gwVars>>

MtBegin ==
    /\ kind = "mt" /\ pc = "idle"
    /\ \E k \in Rand : ~Below(k, cfg.unknown)
    /\ std' = 0 /\ tries' = 0 /\ pc' = "loop"
    /\ ret' = NoRet
    /\ handed' = <<>>
    /\ UNCHANGED <<kind, page, cfg, views, center, rotation, zoom, view, metered>>
    /\ UNCHANGED <<avVars, wkVars, nnVars, thVars, gwVars>>

\* rotations random_viewport draws when its aligned coin is k/RandDen
MtRotations(k) == IF Below(k, AlignedTenths) THEN AlignedRotations ELSE FreeRotations

\* the states random_viewport returns: center = space.center * (0.25 +
\* rand() * 1.5), rotation aligned or free by the coin, zoom = rand() * 4 - 3.5
MtViewports(raster) ==
    { ViewportState(ScaledCenter(raster, RandDen + 6 * k1, RandDen + 6 * k1,
                                 4 * RandDen),
                    r, 8 * k3 - 7 * RandDen) :
          k1 \in Rand, r \in UNION { MtRotations(k2) : k2 \in Rand },
          k3 \in Rand }

\* one pass of the loop, drawing state s
MtDrawAtStaleStd(s) ==
    /\ kind = "mt" /\ pc = "loop" /\ std < StdThreshold
    /\ handed' = <<Call("view", "render", s.center, s.rotation, s.zoom)>>
    /\ \E patch \in {Render(views.view, s.center, s.rotation, s.zoom)} :
             /\ center' = s.center /\ rotation' = s.rotation /\ zoom' = s.zoom
             /\ view' = patch
             /\ std' = std
    /\ tries' = Bump(tries)
    /\ UNCHANGED <<kind, page, cfg, views, pc, ret, metered>>
    /\ UNCHANGED <<avVars, wkVars, nnVars, thVars, gwVars>>
MtDrawAt(s) ==
    /\ kind = "mt" /\ pc = "loop" /\ std < StdThreshold
    /\ handed' = <<Call("view", "render", s.center, s.rotation, s.zoom)>>
    /\ \E patch \in {Render(views.view, s.center, s.rotation, s.zoom)} :
             /\ center' = s.center /\ rotation' = s.rotation /\ zoom' = s.zoom
             /\ view' = patch
             /\ std' = Std(patch)
    /\ tries' = Bump(tries)
    /\ UNCHANGED <<kind, page, cfg, views, pc, ret, metered>>
    /\ UNCHANGED <<avVars, wkVars, nnVars, thVars, gwVars>>

MtDraw ==
    /\ kind = "mt"
    /\ \E s \in MtViewports(views.view.raster) : MtDrawAt(s)

\* what __getitem__ returns once the loop has accepted patch v at (c, r, z)
MtSampleRedraw(vs, v, c, r, z) ==
    [kind |-> "mt", doc |-> TRUE,
     X  |-> Render(vs.view, c, 0, z),
     Y1 |-> SegmentationTarget(Render(vs.segmentation, c, r, z)),
     Y2 |-> ValueTarget(Render(vs.value, c, r, z)),
     Y3 |-> AlignmentTarget(r),
     Y4 |-> r,
     at |-> [X  |-> ViewportState(c, 0, z),
             Y1 |-> ViewportState(c, r, z),
             Y2 |-> ViewportState(c, r, z)]]
MtSample(vs, v, c, r, z) ==
    [kind |-> "mt", doc |-> TRUE,
     X  |-> v,
     Y1 |-> SegmentationTarget(Render(vs.segmentation, c, r, z)),
     Y2 |-> ValueTarget(Render(vs.value, c, r, z)),
     Y3 |-> AlignmentTarget(r),
     Y4 |-> r,
     at |-> [X  |-> ViewportState(c, r, z),
             Y1 |-> ViewportState(c, r, z),
             Y2 |-> ViewportState(c, r, z)]]

MtReturn ==
    /\ kind = "mt" /\ pc = "loop" /\ std >= StdThreshold
    /\ ret' = MtSample(views, view, center, rotation, zoom)
    /\ handed' = << Call("segmentation", "render", center, rotation, zoom),
                    Call("value", "render", center, rotation, zoom) >>
    /\ pc' = "idle"
    /\ NoLocals
    /\ UNCHANGED <<kind, page, cfg, views, metered, tries>>
    /\ UNCHANGED <<avVars, wkVars, nnVars, thVars, gwVars>>

---------------------------------------------------------------------------
Next ==
    \/ RotBegin \/ RotDraw \/ RotReturn
    \/ SegNonDoc \/ SegBegin \/ SegDraw \/ SegReturn
    \/ MtNonDoc \/ MtBegin \/ MtDraw \/ MtReturn

Spec == Init /\ [][Next]_vars

\* the view that renders the input patch X
InputView == IF kind = "rot" THEN views.nav ELSE views.view

\* the states the sampling loop of a dataset draws from
ViewportsOf(k, raster) ==
    IF k = "rot" THEN RotViewports(raster)
    ELSE IF k = "seg" THEN SegViewports(raster)
    ELSE MtViewports(raster)

Viewports == ViewportsOf(kind, InputView.raster)

\* the input views the datasets are constructed with
InputViews ==
    [rot |-> { RotationDatasetInit(p).nav : p \in 1 .. Len(Pages) },
     seg |-> { MultitaskViews(p, b).view : p \in 1 .. Len(Pages), b \in BiasDraws },
     mt  |-> { MultitaskViews(p, b).view : p \in 1 .. Len(Pages), b \in BiasDraws }]

\* the states of the sampling range whose patch passes "while std < 10",
\* for each dataset and input view
Accepted ==
    [k \in {"rot", "seg", "mt"} |->
        [a \in InputViews[k] |->
            { s \in ViewportsOf(k, a.raster) :
                Std(Render(a, s.center, s.rotation, s.zoom)) >= StdThreshold }]]

\* the input view as constructed, whatever state it has recorded since
AsConstructed(a) == [a EXCEPT !.state = NoState]

\* a pass of the loop whose draw is a state the loop accepts
drawn == <<center, rotation, zoom>>

DrawAccepted ==
    /\ pc = "loop" /\ std < StdThreshold
    /\ \E s \in Accepted[kind][AsConstructed(InputView)] :
         center' = s.center /\ rotation' = s.rotation /\ zoom' = s.zoom

\* __getitem__ leaves the loop and returns
Returns == pc = "loop" /\ std >= StdThreshold /\ pc' = "idle"

\* the datasets under fair random draws: a loop that keeps drawing draws,
\* sooner or later, a state it accepts if there is one; a loop whose
\* condition is false is left
SpecFair ==
    /\ Init /\ [][Next]_vars
    /\ WF_drawn(DrawAccepted)
    /\ WF_pc(Returns)

---------------------------------------------------------------------------
(* The sampling loop with its draws counted, on a blank page *)

BlankPage ==
    CHOOSE p \in 1 .. Len(Pages) :
        \A y \in 1 .. Len(Pages[p].noisy), x \in 1 .. Len(Pages[p].noisy[1]) :
            Pages[p].noisy[y][x] = Pages[p].noisy[1][1]

InitRetry ==
    /\ page = BlankPage
    /\ metered = TRUE
    /\ Construct

\* RotReturn is left out: no patch of a blank raster is accepted
NextRetry ==
    \/ RotBegin \/ RotDraw
    \/ SegNonDoc \/ SegBegin \/ SegDraw \/ SegReturn
    \/ MtNonDoc \/ MtBegin \/ MtDraw \/ MtReturn

SpecRetry == InitRetry /\ [][NextRetry]_vars

---------------------------------------------------------------------------
(* A stand-alone AgentView driven through its interface *)

DsIdle ==
    /\ kind = None /\ page = 0 /\ cfg = [unknown |-> 0]
    /\ views = [nav |-> NoView]
    /\ pc = "idle"
    /\ center = NoCenter /\ rotation = NoNumber /\ zoom = NoNumber
    /\ std = NoNumber /\ view = NoPatch
    /\ ret = NoRet /\ metered = FALSE /\ tries = 0 /\ handed = <<>>
    /\ WkIdle
    /\ NnIdle

\* arguments the interface is called with: centers inside and far outside
\* the canvas, rotations below 0 and above 359, zoom -1 and -2
AvCenters == { <<1, 1>>, <<0, 3>>, <<0 - 40, 0 - 40>> }
AvRotations == { 0 - 3, 45, 90, 400 }
AvZooms == { 0 - ZoomDen, 0 - 2 * ZoomDen }

InitView ==
    /\ \E p \in 1 .. Len(Pages), n \in {"view", "segmentation", "value"} :
         av = MultitaskViews(p, 0)[n]
    /\ avOut = NoPatch /\ avCall = NoCall /\ avLast = NoCall /\ avErr = None
    /\ DsIdle

\* av.render(c, r, z) for arguments drawn from C, R, Z
RenderCall(C, R, Z) ==
    /\ av # NoView
    /\ \E c \in C, r \in R, z \in Z :
       \E o \in {RenderOutcome(av, c, r, z)} :
         /\ avOut' = o.out
         /\ avErr' = o.err
         /\ avCall' = [op |-> "render", state |-> ViewportState(c, r, z)]
    /\ UNCHANGED <<av, avLast>>
    /\ UNCHANGED <<dsVars, wkVars, nnVars, thVars, gwVars>>

\* av.set_state(c, r, z) for arguments drawn from C, R, Z
SetStateCall(C, R, Z) ==
    /\ av # NoView
    /\ \E c \in C, r \in R, z \in Z :
       \E o \in {RenderOutcome(av, c, r, z)} :
         /\ avOut' = o.out
         /\ avErr' = o.err
         /\ av' = SetStateView(av, c, r, z)
         /\ avCall' = [op |-> "set_state", state |-> ViewportState(c, r, z)]
         /\ avLast' = IF o.err = None
                      THEN [op |-> "set_state", state |-> ViewportState(c, r, z),
                            patch |-> o.out]
                      ELSE avLast
    /\ UNCHANGED <<dsVars, wkVars, nnVars, thVars, gwVars>>

AvRender == RenderCall(AvCenters, AvRotations, AvZooms)

AvSetState == SetStateCall(AvCenters, AvRotations, AvZooms)

AvApplyState ==
    /\ av # NoView
    /\ av.state # NoState
    /\ avOut' = ApplyState(av, av.state)
    /\ avErr' = None
    /\ avCall' = [op |-> "apply_state", state |-> av.state]
    /\ UNCHANGED <<av, avLast>>
    /\ UNCHANGED <<dsVars, wkVars, nnVars, thVars, gwVars>>

NextView == AvRender \/ AvSetState \/ AvApplyState

SpecView == InitView /\ [][NextView]_vars

---------------------------------------------------------------------------
(* An AgentView from its construction on, called with page-aligned states *)
(* and with zooms whose field of view is degenerate                        *)

\* view_size arguments of the constructor
ViewSizes == { 0 - 1, 0, ViewSize }
\* zoom 0 (field of view = view_size), 2^(-zoom) = inf, 2^(-zoom) = 0
FaultZooms == { 0, 0 - DoubleMaxExp * ZoomDen, DoubleMinExp * ZoomDen }
FaultCenters == { <<1, 1>>, <<2, 2>> }

InitFault == AvIdle /\ DsIdle

AvConstruct ==
    /\ av = NoView
    /\ \E p \in 1 .. Len(Pages), n \in {"view", "segmentation", "value"},
          vs \in ViewSizes :
       \E o \in {ConstructOutcome(MultitaskViews(p, 0)[n].raster, vs,
                                  MultitaskViews(p, 0)[n].bias)} :
         /\ av' = IF o.err = None THEN o.view ELSE av
         /\ avErr' = o.err
         /\ avCall' = [op |-> "construct", view_size |-> vs]
    /\ avOut' = NoPatch
    /\ UNCHANGED avLast
    /\ UNCHANGED <<dsVars, wkVars, nnVars, thVars, gwVars>>

AvRenderAny == RenderCall(FaultCenters, AlignedRotations, FaultZooms)

AvSetStateAny == SetStateCall(FaultCenters, AlignedRotations, FaultZooms)

NextFault == AvConstruct \/ AvRenderAny \/ AvSetStateAny \/ AvApplyState

SpecFault == InitFault /\ [][NextFault]_vars

---------------------------------------------------------------------------
(* A synchronized view set over identical content: the three views the     *)
(* datasets build, each bound to the same grid                             *)

\* a 2-D grid as a raster of n equal channels
Replicated(m, n) ==
    [y \in 1 .. Len(m) |-> [x \in 1 .. Len(m[1]) |-> [ch \in 1 .. n |-> m[y][x]]]]

\* view: one channel, explicit bias; segmentation: len(ORDER) - 1 channels,
\* derived bias; value: one channel, derived bias
SyncViews(m, b) ==
    [view         |-> AgentView(Gray(m), b),
     segmentation |-> AgentView(Replicated(m, NumClasses - 1),
                                DeriveBias(Replicated(m, NumClasses - 1))),
     value        |-> AgentView(Gray(m), DeriveBias(Gray(m)))]

SyncCenters == { <<1, 1>>, <<0, 3>>, <<2, 2>> }
SyncRotations == { 0, 45, 90, 180 }
SyncZooms == { 0, 0 - ZoomDen }

InitSync ==
    /\ kind = "set"
    /\ page \in 1 .. Len(Pages)
    /\ cfg = [unknown |-> 0]
    /\ \E b \in BiasDraws : views = SyncViews(Pages[page].noisy, b)
    /\ pc = "idle"
    /\ center = NoCenter /\ rotation = NoNumber /\ zoom = NoNumber
    /\ std = NoNumber /\ view = NoPatch
    /\ ret = NoRet /\ metered = FALSE /\ tries = 0 /\ handed = <<>>
    /\ AvIdle
    /\ WkIdle
    /\ NnIdle

\* SynchronizedViewSet.render(center, rotation, zoom): one state applied to
\* every member
SetRender ==
    /\ kind = "set" /\ pc = "idle"
    /\ \E c \in SyncCenters, r \in SyncRotations, z \in SyncZooms :
         /\ ret' = [kind |-> "set", doc |-> TRUE,
                    at   |-> ViewportState(c, r, z),
                    out  |-> [n \in DOMAIN views |->
                                ApplyState(views[n], ViewportState(c, r, z))]]
         /\ handed' = << Call("view", "apply_state", c, r, z),
                         Call("segmentation", "apply_state", c, r, z),
                         Call("value", "apply_state", c, r, z) >>
    /\ UNCHANGED <<kind, page, cfg, views, pc, center, rotation, zoom, std,
                   view, metered, tries>>
    /\ UNCHANGED <<avVars, wkVars, nnVars, thVars, gwVars>>

NextSync == SetRender

SpecSync == InitSync /\ [][NextSync]_vars

---------------------------------------------------------------------------
(* Two workers, each with the dataset it constructed; their draws interleave *)

\* what each worker builds: a SegmentationDataset and a
\* MultitaskPretrainingDataset(unknown_fraction = 0.1), of different pages
WorkerBuilds ==
    << [kind |-> "seg", page |-> 1, unknown |-> SegUnknownTenths, bias |-> 50],
       [kind |-> "mt", page |-> 3, unknown |-> 1, bias |-> 0] >>

\* the object graph of worker w right after construction
Built(w) ==
    [kind |-> WorkerBuilds[w].kind, page |-> WorkerBuilds[w].page,
     cfg |-> IF WorkerBuilds[w].kind = "mt"
             THEN [unknown |-> WorkerBuilds[w].unknown,
                   threshold |-> AlignmentThreshold]
             ELSE [unknown |-> WorkerBuilds[w].unknown],
     views |-> MultitaskViews(WorkerBuilds[w].page, WorkerBuilds[w].bias),
     pc |-> "idle", center |-> NoCenter, rotation |-> NoNumber, zoom |-> NoNumber,
     std |-> NoNumber, view |-> NoPatch, ret |-> NoRet, handed |-> <<>>]

\* the object graph of the running worker
Graph ==
    [kind |-> kind, page |-> page, cfg |-> cfg, views |-> views, pc |-> pc,
     center |-> center, rotation |-> rotation, zoom |-> zoom, std |-> std,
     view |-> view, ret |-> ret, handed |-> handed]

\* what a worker finds when it runs again: self.view, self.segmentation and
\* self.value are attributes of its own dataset object
ResumedSharedViews(own, other) == [own EXCEPT !.views = other.views]
Resumed(own, other) == own

InitWorkers ==
    /\ running = 1
    /\ peer = Built(2)
    /\ kind = Built(1).kind /\ page = Built(1).page /\ cfg = Built(1).cfg
    /\ views = Built(1).views
    /\ pc = "idle"
    /\ center = NoCenter /\ rotation = NoNumber /\ zoom = NoNumber
    /\ std = NoNumber /\ view = NoPatch
    /\ ret = NoRet /\ metered = FALSE /\ tries = 0 /\ handed = <<>>
    /\ AvIdle
    /\ NnIdle

\* the scheduler lets the other worker run
Switch ==
    /\ running \in {1, 2}
    /\ running' = 3 - running
    /\ peer' = Graph
    /\ \E g \in {Resumed(peer, Graph)} :
         /\ kind' = g.kind /\ page' = g.page /\ cfg' = g.cfg
         /\ views' = g.views /\ pc' = g.pc
         /\ center' = g.center /\ rotation' = g.rotation /\ zoom' = g.zoom
         /\ std' = g.std /\ view' = g.view
         /\ ret' = g.ret /\ handed' = g.handed
    /\ UNCHANGED <<metered, tries>>
    /\ UNCHANGED <<avVars, nnVars, thVars, gwVars>>

NextWorkers ==
    \/ SegNonDoc \/ SegBegin \/ SegDraw \/ SegReturn
    \/ MtNonDoc \/ MtBegin \/ MtDraw \/ MtReturn
    \/ Switch

SpecWorkers == InitWorkers /\ [][NextWorkers]_vars

---------------------------------------------------------------------------
(* The encoder-decoder networks: which levels of the encoder's output list *)
(* each part of forward reads.  A tensor is the term that computes it.     *)

\* encoder depths of the model (depth = 4 in the notebooks)
MaxDepth == 3

\* the batch forward is called with
Batches == { [op |-> "input", id |-> n] : n \in 1 .. 2 }

\* ViewToSequence.forward
ViewToSequence(x) == [op |-> "sequence", x |-> x]

\* SequenceToView.forward of the decoder named owner
SequenceToView(owner, x) == [op |-> "unpatch", owner |-> owner, x |-> x]

Softmax(x) == [op |-> "softmax", x |-> x]

\* a classification head of the given name
ClassificationHead(owner, x) == [op |-> "head", owner |-> owner, x |-> x]

\* TransformerBlock.forward(x, pass_through) of block k of owner: merge the
\* pass-through if the block has a merge layer, then attention and MLP
TransformerBlockMerging(owner, k, bridge, x, pass_through) ==
    [op |-> "block", owner |-> owner, k |-> k,
     x |-> [op |-> "merge", pass_through |-> pass_through, x |-> x]]
TransformerBlock(owner, k, bridge, x, pass_through) ==
    [op |-> "block", owner |-> owner, k |-> k,
     x |-> IF bridge
           THEN [op |-> "merge", pass_through |-> pass_through, x |-> x]
           ELSE x]

\* TransformerEncoder.forward: the outputs of all depth blocks, in order
RECURSIVE EncoderLevel(_, _)
EncoderLevel(k, x) ==
    IF k = 0 THEN ViewToSequence(x)
    ELSE TransformerBlock("encoder", k, FALSE, EncoderLevel(k - 1, x), NoTensor)

TransformerEncoder(depth, x) == [k \in 1 .. depth |-> EncoderLevel(k, x)]

\* list.pop()
Last(l) == l[Len(l)]
Front(l) == SubSeq(l, 1, Len(l) - 1)

\* the loop of TransformerDecoder.forward from block k on: x is the running
\* tensor, outputs the list, popped what has been popped so far
RECURSIVE DecoderBlocks(_, _, _, _, _, _, _)
DecoderBlocks(owner, k, n, bridge, x, outputs, popped) ==
    IF k > n THEN [err |-> None, x |-> x, outputs |-> outputs, popped |-> popped]
    ELSE IF outputs = <<>>
    THEN [err |-> "IndexError", x |-> NoTensor, outputs |-> outputs,
          popped |-> popped]
    ELSE DecoderBlocks(owner, k + 1, n, bridge,
                       TransformerBlock(owner, k, bridge, x, Last(outputs)),
                       Front(outputs), Append(popped, Last(outputs)))

\* TransformerDecoder.forward(outputs) of a decoder of n blocks: the result,
\* the list as the call leaves it, and the tensors it popped, in order
TransformerDecoder(owner, n, bridge, outputs) ==
    IF Len(outputs) # n + 1
    THEN [err |-> "AssertionError", out |-> NoTensor, outputs |-> outputs,
          popped |-> <<>>]
    ELSE LET r == DecoderBlocks(owner, 1, n, bridge, Last(outputs),
                                Front(outputs), <<Last(outputs)>>)
         IN  [err |-> r.err,
              out |-> IF r.err = None THEN SequenceToView(owner, r.x)
                      ELSE NoTensor,
              outputs |-> r.outputs, popped |-> r.popped]

\* a decoder of scripts/backbone.py (CNNDecoder): it reads the list it is
\* given and may pop any number of its items
CNNDecoder(owner, outputs, pops) ==
    [err |-> None,
     out |-> [op |-> "cnn_decoder", owner |-> owner, outputs |-> outputs],
     outputs |-> SubSeq(outputs, 1, Len(outputs) - pops),
     popped |-> [i \in 1 .. pops |-> outputs[Len(outputs) + 1 - i]]]

\* the depth UNet.__init__ and get_vit_decoder give the decoder
DecoderDepthFull(depth) == depth
DecoderDepth(depth) == depth - 1

\* e[:] allocates a new list holding the items of list id
PassList(h, id) == [heap |-> h, id |-> id]
CopyList(h, id) == [heap |-> Append(h, h[id]), id |-> Len(h) + 1]

\* the networks built in the notebooks: UNet with and without bridges,
\* MultitaskUNet with the decoders of get_vit_decoder (bridge = False),
\* MultitaskUCNN with CNNDecoder
Networks ==
    { [kind |-> "UNet", depth |-> d, bridge |-> b] :
          d \in 1 .. MaxDepth, b \in BOOLEAN }
    \cup { [kind |-> "MultitaskUNet", depth |-> d, bridge |-> FALSE] :
          d \in 1 .. MaxDepth }
    \cup { [kind |-> "MultitaskUCNN", depth |-> d, bridge |-> TRUE] :
          d \in 1 .. MaxDepth }

\* what the decoder named owner can return when called with list outputs
DecoderCalls(owner, outputs) ==
    IF net.kind = "MultitaskUCNN"
    THEN { CNNDecoder(owner, outputs, n) : n \in 0 .. Len(outputs) }
    ELSE { TransformerDecoder(owner, DecoderDepth(net.depth), net.bridge,
                              outputs) }

InitNet ==
    /\ net \in Networks
    /\ heap = <<>> /\ encoded = 0 /\ embedding = NoTensor
    /\ nnPc = "idle" /\ nnOut = NoOutputs /\ decoded = NoDecode
    /\ AvIdle
    /\ kind = None /\ page = 0 /\ cfg = [unknown |-> 0]
    /\ views = [nav |-> NoView]
    /\ pc = "idle"
    /\ center = NoCenter /\ rotation = NoNumber /\ zoom = NoNumber
    /\ std = NoNumber /\ view = NoPatch
    /\ ret = NoRet /\ metered = FALSE /\ tries = 0 /\ handed = <<>>
    /\ WkIdle
    /\ th = <<>> /\ lock = 0 /\ locking = FALSE
    /\ GwIdle

\* e = self.backbone(x); embedding = e[-1] in MultitaskUNet
Encode ==
    /\ nnPc \in {"idle", "done", "failed"}
    /\ \E x \in Batches :
         /\ heap' = << TransformerEncoder(net.depth, x) >>
         /\ embedding' = IF net.kind = "MultitaskUNet"
                         THEN EncoderLevel(net.depth, x) ELSE NoTensor
    /\ encoded' = 1
    /\ nnPc' = "encoded"
    /\ nnOut' = NoOutputs
    /\ decoded' = NoDecode
    /\ UNCHANGED net
    /\ UNCHANGED <<dsVars, avVars, wkVars, thVars, gwVars>>

\* the call of the decoder named owner with list `given` of heap h returned
\* r: the list is left as the call left it
Decode(owner, h, given, r) ==
    /\ heap' = [h EXCEPT ![given] = r.outputs]
    /\ decoded' = [owner |-> owner, given |-> given, before |-> h[given],
                   popped |-> r.popped, err |-> r.err]
    /\ nnOut' = IF r.err = None
                THEN [nnOut EXCEPT ![owner] = Softmax(r.out)] ELSE nnOut

\* UNet is nn.Sequential(encoder, decoder, Softmax): the decoder is called
\* with the list the encoder returned
UNetDecode ==
    /\ net.kind = "UNet" /\ nnPc = "encoded"
    /\ \E r \in DecoderCalls("out", heap[encoded]) :
         /\ Decode("out", heap, encoded, r)
         /\ nnPc' = IF r.err = None THEN "done" ELSE "failed"
    /\ UNCHANGED <<net, encoded, embedding>>
    /\ UNCHANGED <<dsVars, avVars, wkVars, thVars, gwVars>>

\* segmentation = self.segmentation(e[:])
SegmentationDecode ==
    /\ net.kind \in {"MultitaskUNet", "MultitaskUCNN"} /\ nnPc = "encoded"
    /\ \E l \in {CopyList(heap, encoded)} :
       \E r \in DecoderCalls("segmentation", l.heap[l.id]) :
         /\ Decode("segmentation", l.heap, l.id, r)
         /\ nnPc' = IF r.err = None THEN "segmented" ELSE "failed"
    /\ UNCHANGED <<net, encoded, embedding>>
    /\ UNCHANGED <<dsVars, avVars, wkVars, thVars, gwVars>>

\* value = self.value(e[:])
ValueDecode ==
    /\ net.kind \in {"MultitaskUNet", "MultitaskUCNN"} /\ nnPc = "segmented"
    /\ \E l \in {CopyList(heap, encoded)} :
       \E r \in DecoderCalls("value", l.heap[l.id]) :
         /\ Decode("value", l.heap, l.id, r)
         /\ nnPc' = IF r.err = None THEN "valued" ELSE "failed"
    /\ UNCHANGED <<net, encoded, embedding>>
    /\ UNCHANGED <<dsVars, avVars, wkVars, thVars, gwVars>>

\* MultitaskUNet: alignment = self.alignment(embedding), rotation =
\* self.rotation(embedding); MultitaskUCNN: alignment = self.alignment(e[-1])
Heads ==
    /\ net.kind \in {"MultitaskUNet", "MultitaskUCNN"} /\ nnPc = "valued"
    /\ \/ /\ net.kind = "MultitaskUNet"
          /\ nnOut' = [nnOut EXCEPT !.alignment = ClassificationHead("alignment", embedding),
                                    !.rotation = ClassificationHead("rotation", embedding)]
          /\ nnPc' = "done"
       \/ /\ net.kind = "MultitaskUCNN"
          /\ heap[encoded] # <<>>
          /\ nnOut' = [nnOut EXCEPT !.alignment =
                                       ClassificationHead("alignment", Last(heap[encoded]))]
          /\ nnPc' = "done"
       \/ /\ net.kind = "MultitaskUCNN"
          /\ heap[encoded] = <<>>
          /\ nnOut' = nnOut
          /\ nnPc' = "failed"
    /\ UNCHANGED <<net, heap, encoded, embedding, decoded>>
    /\ UNCHANGED <<dsVars, avVars, wkVars, thVars, gwVars>>

NextNet == Encode \/ UNetDecode \/ SegmentationDecode \/ ValueDecode \/ Heads

SpecNet == InitNet /\ [][NextNet]_vars

---------------------------------------------------------------------------
(* Threads drawing from one shared AgentView: a draw is set_state(s1) for  *)
(* the input patch, then a replay of the view's last state for the target  *)

Threads == {1, 2}

\* states the threads choose
ThreadStates ==
    { ViewportState(c, r, 0 - ZoomDen) : c \in {<<1, 1>>, <<2, 2>>}, r \in {0, 90} }

NoDraw == [pc |-> "idle", s1 |-> NoState, X |-> NoPatch, at |-> NoState,
           Y |-> NoPatch]

\* thread t may run its draw: with locking, only while it holds the lock
HoldsNothing(t) == TRUE
Holds(t) == locking => lock = t

InitThreads ==
    /\ \E p \in {1, 3} : av = MultitaskViews(p, 0).view
    /\ avOut = NoPatch /\ avCall = NoCall /\ avLast = NoCall /\ avErr = None
    /\ th = [t \in Threads |-> NoDraw]
    /\ lock = 0
    /\ locking \in BOOLEAN
    /\ GwIdle
    /\ kind = None /\ page = 0 /\ cfg = [unknown |-> 0]
    /\ views = [nav |-> NoView]
    /\ pc = "idle"
    /\ center = NoCenter /\ rotation = NoNumber /\ zoom = NoNumber
    /\ std = NoNumber /\ view = NoPatch
    /\ ret = NoRet /\ metered = FALSE /\ tries = 0 /\ handed = <<>>
    /\ WkIdle
    /\ net = NoNet /\ heap = <<>> /\ encoded = 0 /\ embedding = NoTensor
    /\ nnPc = "idle" /\ nnOut = NoOutputs /\ decoded = NoDecode

\* a thread takes the lock before its draw
Acquire(t) ==
    /\ locking /\ lock = 0
    /\ th[t].pc = "idle"
    /\ lock' = t
    /\ UNCHANGED <<th, locking>>
    /\ UNCHANGED <<dsVars, avVars, wkVars, nnVars, gwVars>>

\* X = av.set_state(s1)
ThreadSetState(t) ==
    /\ th[t].pc = "idle" /\ Holds(t)
    /\ \E s \in ThreadStates :
       \E o \in {RenderOutcome(av, s.center, s.rotation, s.zoom)} :
         /\ av' = SetStateView(av, s.center, s.rotation, s.zoom)
         /\ avOut' = o.out /\ avErr' = o.err
         /\ avCall' = [op |-> "set_state", state |-> s]
         /\ avLast' = [op |-> "set_state", state |-> s, patch |-> o.out]
         /\ th' = [th EXCEPT ![t] = [pc |-> "set", s1 |-> s, X |-> o.out,
                                     at |-> NoState, Y |-> NoPatch]]
    /\ UNCHANGED <<lock, locking>>
    /\ UNCHANGED <<dsVars, wkVars, nnVars, gwVars>>

\* Y = av.apply_state(the last state of av)
ThreadReplay(t) ==
    /\ th[t].pc = "set" /\ Holds(t)
    /\ \E y \in {ApplyState(av, av.state)} :
         /\ avOut' = y /\ avErr' = None
         /\ avCall' = [op |-> "apply_state", state |-> av.state]
         /\ th' = [th EXCEPT ![t].pc = "replayed", ![t].at = av.state,
                             ![t].Y = y]
    /\ UNCHANGED <<av, avLast, lock, locking>>
    /\ UNCHANGED <<dsVars, wkVars, nnVars, gwVars>>

\* the draw returns (X, Y); the lock, if taken, is released
ThreadReturn(t) ==
    /\ th[t].pc = "replayed" /\ Holds(t)
    /\ th' = [th EXCEPT ![t].pc = "idle"]
    /\ lock' = IF locking THEN 0 ELSE lock
    /\ UNCHANGED locking
    /\ UNCHANGED <<dsVars, avVars, wkVars, nnVars, gwVars>>

NextThreads ==
    \E t \in Threads :
        Acquire(t) \/ ThreadSetState(t) \/ ThreadReplay(t) \/ ThreadReturn(t)

SpecThreads == InitThreads /\ [][NextThreads]_vars

---------------------------------------------------------------------------
(* get_alignment_weight: the class weights of the alignment task, estimated
   by simulating the labels of MultitaskPretrainingDataset *)

\* range(10000): the tries of one estimate
WeightTries == 3

\* unknown_fraction: float = 0. of MultitaskPretrainingDataset.__init__ (tenths)
UnknownFraction == 0
\* unknown_fraction=0.1 of get_alignment_weight (tenths)
WeightUnknownFraction == 1

\* the keyword defaults of MultitaskPretrainingDataset.__init__
DatasetDefaults ==
    [threshold |-> AlignmentThreshold, unknown |-> UnknownFraction,
     aligned |-> AlignedTenths]

\* the keyword defaults of get_alignment_weight
WeightDefaults ==
    [threshold |-> AlignmentThreshold, unknown |-> WeightUnknownFraction,
     aligned |-> AlignedTenths]

\* np.random.choice([0, 90, 180, 270]) if np.random.rand() < aligned_fraction
\* else np.random.randint(0, 360), for rand() = k/RandDen
WeightRotations(k, aligned_fraction) ==
    IF Below(k, aligned_fraction) THEN AlignedRotations ELSE FreeRotations

\* d = r % 90; int(min(d, 90 - d) <= alignment_threshold) + 1
WeightClass(r, alignment_threshold) ==
    IF Min2(r % 90, 90 - (r % 90)) <= alignment_threshold THEN 2 ELSE 1

Count(q, c) == Cardinality({ n \in 1 .. Len(q) : q[n] = c })

\* the keys of w.groupby(w), in ascending order
RECURSIVE Ascending(_)
Ascending(S) ==
    IF S = {} THEN <<>>
    ELSE <<MinOf(S)>> \o Ascending(S \ {MinOf(S)})

\* np.round(n/d, 2) in hundredths: to the nearest, halves to the even one
RoundHundredths(n, d) ==
    LET sign == IF (n < 0) = (d < 0) THEN 1 ELSE 0 - 1
        a == IF n < 0 THEN 0 - n ELSE n
        b == IF d < 0 THEN 0 - d ELSE d
        q == (100 * a) \div b
        rem == (100 * a) % b
    IN  sign * (IF 2 * rem > b THEN q + 1
                ELSE IF 2 * rem < b THEN q
                ELSE IF q % 2 = 0 THEN q ELSE q + 1)

\* w = pd.Series(x); w = w.sum() - w.groupby(w).size();
\* list(np.round(list(w/w.sum()), 2)): one weight per class that occurs in x,
\* nan for all of them when the weights sum to zero
Weights(q) ==
    LET keys == Ascending({ q[n] : n \in 1 .. Len(q) })
        w == [i \in 1 .. Len(keys) |-> SumSeq(q) - Count(q, keys[i])]
    IN  IF SumSeq(w) = 0
        THEN [nan |-> TRUE, w |-> [i \in 1 .. Len(keys) |-> 0]]
        ELSE [nan |-> FALSE,
              w |-> [i \in 1 .. Len(keys) |-> RoundHundredths(w[i], SumSeq(w))]]

\* a pretraining dataset is constructed, with its defaults or with another
\* configuration; get_alignment_weight has not been called
InitWeight ==
    /\ page = 1 /\ kind = "mt" /\ metered = FALSE
    /\ Construct

\* get_alignment_weight() as the notebook calls it, or with the
\* configuration the dataset was constructed with
WeightCall ==
    /\ gwPc = "idle"
    /\ gwArgs' \in { WeightDefaults,
                     [threshold |-> cfg.threshold, unknown |-> cfg.unknown,
                      aligned |-> AlignedTenths] }
    /\ gwX' = <<>> /\ gwR' = NoNumber /\ gwOut' = NoWeights
    /\ gwPc' = "loop"
    /\ UNCHANGED <<dsVars, avVars, wkVars, nnVars, thVars>>

\* one try whose rand() is below unknown_fraction: x.append(0)
WeightUnknown ==
    /\ gwPc = "loop" /\ Len(gwX) < WeightTries
    /\ \E k \in Rand : Below(k, gwArgs.unknown)
    /\ gwX' = Append(gwX, 0)
    /\ UNCHANGED <<gwArgs, gwR, gwPc, gwOut>>
    /\ UNCHANGED <<dsVars, avVars, wkVars, nnVars, thVars>>

\* one try that draws a rotation and appends its class
WeightKnown ==
    /\ gwPc = "loop" /\ Len(gwX) < WeightTries
    /\ \E k \in Rand : ~Below(k, gwArgs.unknown)
    /\ \E k \in Rand : \E r \in WeightRotations(k, gwArgs.aligned) :
         /\ gwR' = r
         /\ gwX' = Append(gwX, WeightClass(r, gwArgs.threshold))
    /\ UNCHANGED <<gwArgs, gwPc, gwOut>>
    /\ UNCHANGED <<dsVars, avVars, wkVars, nnVars, thVars>>

\* the loop is over: the weights are computed and returned
WeightReturn ==
    /\ gwPc = "loop" /\ Len(gwX) = WeightTries
    /\ gwOut' = Weights(gwX)
    /\ gwPc' = "done"
    /\ UNCHANGED <<gwArgs, gwX, gwR>>
    /\ UNCHANGED <<dsVars, avVars, wkVars, nnVars, thVars>>

NextWeight == WeightCall \/ WeightUnknown \/ WeightKnown \/ WeightReturn

SpecWeight == InitWeight /\ [][NextWeight]_vars

---------------------------------------------------------------------------
(* Properties *)

InsideCanvas(raster, c) ==
    /\ 0 <= c[1] /\ c[1] < Height(raster)
    /\ 0 <= c[2] /\ c[2] < Width(raster)

\* every sample of the view's raster equals its bias: no viewport state
\* renders anything but a constant patch
Featureless(a) ==
    \A y \in 1 .. Height(a.raster), x \in 1 .. Width(a.raster),
       ch \in 1 .. Channels(a.raster) : a.raster[y][x][ch] = a.bias

DocSample(kinds) == ret.kind \in kinds /\ ret.doc

\* C1: in every document sample of SegmentationDataset and
\* MultitaskPretrainingDataset the input patch X and the targets Y1, Y2 are
\* rendered at one identical (center, rotation, zoom) state.
C1_OneStatePerDraw ==
    DocSample({"seg", "mt"}) =>
        /\ ret.at.Y1 = ret.at.X
        /\ ret.at.Y2 = ret.at.X
        /\ ret.X = Render(views.view, ret.at.X.center, ret.at.X.rotation,
                          ret.at.X.zoom)
        /\ ret.Y1 = SegmentationTarget(
                      Render(views.segmentation, ret.at.X.center,
                             ret.at.X.rotation, ret.at.X.zoom))
        /\ ret.Y2 = ValueTarget(
                      Render(views.value, ret.at.X.center,
                             ret.at.X.rotation, ret.at.X.zoom))

\* a skewed segmentation sample whose mask target is not empty
C1_Witness ==
    /\ DocSample({"seg"})
    /\ ret.at.X.rotation \notin AlignedRotations
    /\ ret.Y1 # Zeros

\* C2: in RotationDataset and MultitaskPretrainingDataset the loop is left
\* only with an input view of standard deviation >= 10, the returned X is
\* that view at the accepted state, and the labels are those of the accepted
\* rotation.
C2_AcceptedDrawReturned ==
    [][ (kind \in {"rot", "mt"} /\ pc = "loop" /\ pc' = "idle") =>
            /\ std >= StdThreshold
            /\ std = Std(view)
            /\ view = Render(InputView, center, rotation, zoom)
            /\ ret'.X = view
            /\ ret'.at.X = ViewportState(center, rotation, zoom)
            /\ (kind = "rot" => /\ ret'.Y1 = rotation
                                /\ ret'.Y2 = RegressionTarget(rotation))
            /\ (kind = "mt" => /\ ret'.Y4 = rotation
                               /\ ret'.Y3 = AlignmentTarget(rotation)) ]_vars

\* a returned pretraining sample at a rotation that is not page-aligned
C2_Witness ==
    /\ DocSample({"mt"})
    /\ ret.Y4 \notin AlignedRotations
    /\ Std(ret.X) >= StdThreshold

\* C3: the input patch X that SegmentationDataset returns for a document
\* draw has standard deviation >= 10.
C3_ReturnedInputAccepted ==
    DocSample({"seg"}) => Std(ret.X) >= StdThreshold

\* C4: on a raster where no viewport state reaches the threshold the
\* sampling loop makes at most RetryCeiling draws.
C4_RetryCeiling ==
    (pc = "loop" /\ Featureless(InputView)) => tries <= RetryCeiling

\* C5: every center the viewport draws produce lies inside the canvas of the
\* raster: 0 <= center[0] < H and 0 <= center[1] < W.
C5_CenterInsideCanvas ==
    (pc = "loop" /\ handed # <<>>) => InsideCanvas(InputView.raster, center)

\* a draw on the 3 x 5 page whose two coordinates differ
C5_Witness ==
    /\ pc = "loop" /\ handed # <<>>
    /\ center[1] > 0 /\ center[2] > center[1]

\* C6: every state the datasets hand to AgentView.render or
\* AgentView.set_state has its rotation in [0, 360).
C6_RotationInRange ==
    \A n \in 1 .. Len(handed) : handed[n].state.rotation \in 0 .. 359

\* C7: set_state returns the patch render returns for the same arguments,
\* and the last-state memo is the state of the most recent set_state.
C7_SetStateRecords ==
    /\ avLast.op = "set_state" =>
          /\ av.state = avLast.state
          /\ avLast.patch = Render(av, avLast.state.center,
                                   avLast.state.rotation, avLast.state.zoom)
    /\ avCall.op = "set_state" =>
          /\ avOut = avLast.patch
          /\ av.state = avCall.state

\* the memo survives a later render of another state
C7_Witness ==
    /\ avLast.op = "set_state"
    /\ avCall.op = "render"
    /\ avCall.state # av.state

C9_RotationPeriod ==
    avCall.op = "render" =>
        /\ avOut = Render(av, avCall.state.center,
                          avCall.state.rotation + 360, avCall.state.zoom)
        /\ avOut = Render(av, avCall.state.center,
                          avCall.state.rotation - 360, avCall.state.zoom)

\* a render at 45 degrees that differs from the render at 0 degrees
C9_Witness ==
    /\ avCall.op = "render"
    /\ avCall.state.rotation = 45
    /\ avOut # Render(av, avCall.state.center, 0, avCall.state.zoom)

\* C10: every output pixel whose source coordinate is outside the canvas
\* equals the view's bias.
C10_BiasOutsideCanvas ==
    avCall.op \in {"render", "set_state", "apply_state"} =>
        \A i \in 1 .. ViewSize, j \in 1 .. ViewSize :
            ~InCanvas(av.raster,
                      SourceCoord(avCall.state.center, avCall.state.rotation,
                                  avCall.state.zoom, i - 1, j - 1))
            => \A ch \in 1 .. Channels(av.raster) : avOut[i][j][ch] = av.bias

\* a field of view wholly outside a raster that holds no sample equal to bias
C10_Witness ==
    /\ avCall.op = "render"
    /\ \A i \in 1 .. ViewSize, j \in 1 .. ViewSize :
          ~InCanvas(av.raster,
                    SourceCoord(avCall.state.center, avCall.state.rotation,
                                avCall.state.zoom, i - 1, j - 1))
    /\ \A y \in 1 .. Height(av.raster), x \in 1 .. Width(av.raster) :
          av.raster[y][x][1] # av.bias

\* the ViewSize x ViewSize block of a raster whose first sample is (y, x)
Slice(raster, y, x) ==
    [i \in 1 .. ViewSize |-> [j \in 1 .. ViewSize |-> raster[y + i][x + j]]]

\* a block turned by a quarter turn
QuarterTurn(b) ==
    [i \in 1 .. ViewSize |-> [j \in 1 .. ViewSize |-> b[j][ViewSize + 1 - i]]]

Turned(b, k) ==
    IF k = 0 THEN b
    ELSE IF k = 1 THEN QuarterTurn(b)
    ELSE IF k = 2 THEN QuarterTurn(QuarterTurn(b))
    ELSE QuarterTurn(QuarterTurn(QuarterTurn(b)))

\* first sample of the block that a view of side ViewSize pivoted at c
\* covers once turned by r: output offsets run from -ViewSize/2 to
\* ViewSize/2 - 1 about the pivot
Corner(c, r) ==
    << c[1] - ViewSize \div 2 + (IF r \in {180, 270} THEN 1 ELSE 0),
       c[2] - ViewSize \div 2 + (IF r \in {90, 180} THEN 1 ELSE 0) >>

BlockInside(raster, y, x) ==
    /\ 0 <= y /\ y + ViewSize <= Height(raster)
    /\ 0 <= x /\ x + ViewSize <= Width(raster)

\* a successful render at a multiple of 90 degrees with field of view =
\* view_size whose samples fall on the grid and inside the canvas
AlignedRender ==
    /\ avCall.op = "render" /\ avErr = None
    /\ avCall.state.zoom = 0
    /\ avCall.state.rotation \in AlignedRotations
    /\ ViewSize % 2 = 0
    /\ BlockInside(av.raster, Corner(avCall.state.center, avCall.state.rotation)[1],
                   Corner(avCall.state.center, avCall.state.rotation)[2])

ChannelOf(p, ch) ==
    [i \in 1 .. ViewSize |-> [j \in 1 .. ViewSize |-> <<p[i][j][ch]>>]]

\* the four samples nearest to source coordinate p lie on an h x w grid
Interior(h, w, p) ==
    /\ p[1] >= 0 /\ p[1] \div SubPix + 1 < h
    /\ p[2] >= 0 /\ p[2] \div SubPix + 1 < w

\* C12 as claimed: members holding identical content return identical
\* patches for any shared state.
C12_IdenticalPatches ==
    ret.kind = "set" =>
        /\ ret.out.value = ret.out.view
        /\ \A ch \in 1 .. (NumClasses - 1) :
              ChannelOf(ret.out.segmentation, ch) = ret.out.view

\* C12 as amended: members holding identical content agree at every output
\* pixel whose four nearest source samples lie inside the canvas, whatever
\* their channel count or bias, and agree on the whole patch when their
\* biases are equal.
C12_AlignedWhereSampled ==
    ret.kind = "set" =>
        /\ \A i \in 1 .. ViewSize, j \in 1 .. ViewSize :
              Interior(Len(Pages[page].noisy), Len(Pages[page].noisy[1]),
                       SourceCoord(ret.at.center, ret.at.rotation, ret.at.zoom,
                                   i - 1, j - 1))
              => /\ ret.out.value[i][j] = ret.out.view[i][j]
                 /\ \A ch \in 1 .. (NumClasses - 1) :
                       ret.out.segmentation[i][j][ch] = ret.out.view[i][j][1]
        /\ views.view.bias = views.value.bias => ret.out.value = ret.out.view
        /\ views.view.bias = views.segmentation.bias =>
              \A ch \in 1 .. (NumClasses - 1) :
                  ChannelOf(ret.out.segmentation, ch) = ret.out.view

\* members of different bias rendered at 45 degrees: some pixel is sampled
\* inside the canvas and shows content, another is filled with bias
C12_Witness ==
    /\ ret.kind = "set"
    /\ views.view.bias # views.value.bias
    /\ ret.at.rotation = 45
    /\ ret.out.value # ret.out.view
    /\ \E i \in 1 .. ViewSize, j \in 1 .. ViewSize :
          /\ Interior(Len(Pages[page].noisy), Len(Pages[page].noisy[1]),
                      SourceCoord(ret.at.center, ret.at.rotation, ret.at.zoom,
                                  i - 1, j - 1))
          /\ ret.out.view[i][j][1] # views.view.bias

C14_FailuresSurface ==
    [][ /\ avCall'.op = "construct" =>
             /\ avErr' = (IF avCall'.view_size <= 0 THEN "InvalidViewport" ELSE None)
             /\ avErr' # None => (av' = av /\ avOut' = NoPatch)
             /\ avErr' = None => av' # NoView
        /\ avCall'.op \in {"render", "set_state"} =>
             /\ avErr' = (IF Degenerate(avCall'.state.zoom)
                          THEN "DegenerateFieldOfView" ELSE None)
             /\ avErr' # None => (av' = av /\ avLast' = avLast /\ avOut' = NoPatch)
             /\ avErr' = None =>
                   avOut' = Render(av, avCall'.state.center,
                                   avCall'.state.rotation, avCall'.state.zoom)
      ]_vars

\* a set_state refused for a field of view of 0 while the memo still holds
\* the state of an earlier set_state
C14_Witness ==
    /\ avCall.op = "set_state"
    /\ avErr = "DegenerateFieldOfView"
    /\ avCall.state.zoom > 0
    /\ avOut = NoPatch
    /\ av.state # NoState
    /\ av.state = avLast.state

\* the object graph g is what its worker gets when it runs alone, b being
\* the graph that worker constructed: the views hold the rasters and biases
\* of b, the memos are those of the worker's own set_state calls, and the
\* patches are rendered from the rasters of b
OwnGraph(g, b) ==
    /\ g.kind = b.kind /\ g.page = b.page
    /\ \A n \in DOMAIN g.views :
          /\ g.views[n].raster = b.views[n].raster
          /\ g.views[n].bias = b.views[n].bias
    /\ g.kind = "mt" => \A n \in DOMAIN g.views : g.views[n].state = NoState
    /\ (g.kind = "seg" /\ g.pc = "loop" /\ g.handed # <<>>) =>
          g.views.view.state = ViewportState(g.center, g.rotation, g.zoom)
    /\ (g.kind = "seg" /\ g.pc = "idle" /\ g.ret.kind = "seg" /\ g.ret.doc) =>
          \A n \in DOMAIN g.views : g.views[n].state = g.ret.at.X
    /\ (g.pc = "loop" /\ g.handed # <<>>) =>
          g.view = Render(b.views.view, g.center, g.rotation, g.zoom)
    /\ (g.ret.kind # None /\ g.ret.doc) =>
          g.ret.X = Render(b.views.view, g.ret.at.X.center,
                           g.ret.at.X.rotation, g.ret.at.X.zoom)

SegReturns == kind = "seg" /\ pc = "loop" /\ pc' = "idle"

\* C16: in SegmentationDataset the base rotation of a document draw is one
\* of 0, 90, 180, 270 and Y3 = base_rotation/90 + 1, a value in 1..4 that
\* the skew does not change; Y3 = 0 is returned for non-document samples
\* only.
C16_OrientationLabel ==
    [][ /\ SegReturns =>
             /\ rotation \in {0, 90, 180, 270}
             /\ ret'.doc
             /\ 90 * (ret'.Y3 - 1) = rotation
             /\ ret'.Y3 \in 1 .. 4
        /\ ret'.kind = "seg" => (ret'.Y3 = 0 <=> ~ret'.doc)
      ]_vars

\* a sample labelled 270 degrees (Y3 = 4) whose patches are rendered at a
\* skewed rotation below 270
C16_Witness ==
    /\ DocSample({"seg"})
    /\ ret.Y3 = 4
    /\ ret.at.X.rotation < 270

\* C17: the rotation SegmentationDataset renders at differs from the base
\* rotation by a whole number of degrees of absolute value at most max_skew.
C17_SkewSmall ==
    [][ SegReturns =>
            /\ ret'.at.X.rotation - rotation \in (0 - MaxSkew) .. MaxSkew
            /\ \A n \in 1 .. Len(handed') :
                  handed'[n].state.rotation = ret'.at.X.rotation
      ]_vars

\* a sample rendered max_skew degrees off its base rotation
C17_Witness ==
    /\ DocSample({"seg"})
    /\ ret.at.X.rotation + MaxSkew = 90 * (ret.Y3 - 1)
    /\ handed # <<>>

\* the class channels of mask pixel px that exceed 25% of 255
Hot(px) == { ch \in 1 .. Len(px) : 4 * px[ch] > 255 }

\* the mask view a document sample's Y1 was rendered from
MaskView ==
    Render(views.segmentation, ret.at.Y1.center, ret.at.Y1.rotation,
           ret.at.Y1.zoom)

\* C18: each pixel of the segmentation target is a class index in
\* [0, len(ORDER)): 0 exactly when no class channel of the rendered mask
\* exceeds 25% of 255, otherwise the lowest-indexed channel that does.
C18_SegmentationTarget ==
    /\ DocSample({"seg", "mt"}) =>
          \A i \in 1 .. ViewSize, j \in 1 .. ViewSize :
              /\ ret.Y1[i][j] \in 0 .. (NumClasses - 1)
              /\ ret.Y1[i][j] = 0 <=> Hot(MaskView[i][j]) = {}
              /\ Hot(MaskView[i][j]) # {} =>
                    /\ ret.Y1[i][j] \in Hot(MaskView[i][j])
                    /\ \A ch \in Hot(MaskView[i][j]) : ret.Y1[i][j] <= ch
    /\ (ret.kind \in {"seg", "mt"} /\ ~ret.doc) => ret.Y1 = Zeros

\* a sample with a pixel on a class boundary, two channels above threshold
C18_Witness ==
    /\ DocSample({"seg", "mt"})
    /\ \E i \in 1 .. ViewSize, j \in 1 .. ViewSize :
          Cardinality(Hot(MaskView[i][j])) > 1

\* C19: in MultitaskPretrainingDataset the alignment label of a document
\* draw is 2 exactly when the rotation is within alignment_threshold degrees
\* of a multiple of 90 and 1 otherwise; 0 is returned for non-document
\* samples only.
C19_AlignmentLabel ==
    /\ DocSample({"mt"}) =>
          /\ ret.Y3 \in {1, 2}
          /\ ret.Y3 = 2 <=>
                \E m \in 0 .. 4 :
                    /\ ret.Y4 - 90 * m <= cfg.threshold
                    /\ 90 * m - ret.Y4 <= cfg.threshold
    /\ ret.kind = "mt" => (ret.Y3 = 0 <=> ~ret.doc)

\* a rotation labelled aligned because it is just below a multiple of 90
C19_Witness ==
    /\ DocSample({"mt"})
    /\ ret.Y3 = 2
    /\ ret.Y4 % 90 > 45

\* C20: the rotation class target is a class index of the head it trains:
\* RotationDataset returns Y1 in 0..359 (360 classes),
\* MultitaskPretrainingDataset returns Y4 in 0..359 for document draws and
\* Y4 = 360 for non-document samples only (361 classes).
C20_RotationClassValid ==
    /\ ret.kind = "rot" =>
          /\ ret.doc
          /\ ret.Y1 \in 0 .. 359
          /\ ret.Y1 < RotationClasses
          /\ ret.Y1 = Wrap(ret.at.X.rotation)
    /\ ret.kind = "mt" =>
          /\ ret.Y4 \in 0 .. 360
          /\ ret.Y4 < PretrainingRotationClasses
          /\ ret.Y4 = 360 <=> ~ret.doc
          /\ ret.doc => ret.Y4 = Wrap(ret.at.X.rotation)

\* the largest rotation the free mode draws is returned as a class target
C20_Witness ==
    /\ DocSample({"rot", "mt"})
    /\ ret.at.X.rotation \in FreeRotations
    /\ \A r \in FreeRotations : r <= ret.at.X.rotation
    /\ ret.at.X.rotation \notin AlignedRotations

\* C21: the regression target of RotationDataset lies in [-1, 1]: it is
\* r/180 for r <= 180 and -(360 - r)/180 for r > 180, so 180 * Y2 is
\* congruent to r modulo 360 and no other rotation in 0..359 has the same
\* target.
C21_RegressionTarget ==
    ret.kind = "rot" =>
        /\ ret.Y2 \in (0 - 180) .. 180
        /\ ret.Y1 <= 180 => ret.Y2 = ret.Y1
        /\ ret.Y1 > 180 => ret.Y2 = 0 - (360 - ret.Y1)
        /\ ret.Y2 % 360 = ret.Y1
        /\ \A r \in 0 .. 359 : RegressionTarget(r) = ret.Y2 => r = ret.Y1

\* a sample of a rotation above 180 degrees: its target is negative
C21_Witness ==
    /\ ret.kind = "rot"
    /\ ret.Y1 > 180
    /\ ret.Y2 < 0

\* the step on which __getitem__ takes its out-of-class branch
NonDocReturns == kind \in {"seg", "mt"} /\ pc = "idle" /\ pc' = "idle"

\* C22: a non-document sample of SegmentationDataset and
\* MultitaskPretrainingDataset has all-zero segmentation and value targets
\* and the N/A labels (Y3 = 0, and Y4 = 360 in the pretraining dataset); the
\* step that returns it calls no AgentView and leaves every view, its
\* last-state memo included, as it was.
C22_NonDocumentSample ==
    [][ NonDocReturns =>
            /\ ret'.kind = kind /\ ~ret'.doc
            /\ ret'.Y1 = Zeros /\ ret'.Y2 = Zeros
            /\ ret'.Y3 = 0
            /\ kind = "mt" => ret'.Y4 = 360
            /\ ret'.X \in NegativeSamples
            /\ handed' = <<>>
            /\ views' = views
            /\ \A n \in DOMAIN views : views'[n].state = views[n].state
      ]_vars

\* a non-document sample returned by a dataset whose views hold the memo of
\* an earlier document draw
C22_Witness ==
    /\ ret.kind = "seg" /\ ~ret.doc
    /\ ret.Y1 = Zeros /\ ret.Y3 = 0
    /\ \A n \in DOMAIN views : views[n].state # NoState

\* the last decoder call was one of TransformerDecoder.forward
TransformerDecoded ==
    decoded.owner # None /\ net.kind \in {"UNet", "MultitaskUNet"}

\* C23: for every encoder depth >= 1 the decoder built with depth - 1 blocks
\* passes its assertion on the encoder's list of depth outputs, pops the
\* levels deepest first, each exactly once, and leaves the list it was
\* given empty.
C23_DecoderConsumesLevels ==
    /\ net.kind \in {"UNet", "MultitaskUNet"} => nnPc # "failed"
    /\ TransformerDecoded =>
          /\ decoded.err = None
          /\ \E x \in Batches : decoded.before = TransformerEncoder(net.depth, x)
          /\ Len(decoded.before) = net.depth
          /\ Len(decoded.popped) = Len(decoded.before)
          /\ \A i \in 1 .. Len(decoded.popped) :
                decoded.popped[i] = decoded.before[Len(decoded.before) + 1 - i]
          /\ heap[decoded.given] = <<>>
          /\ nnOut[decoded.owner] # NoTensor

\* a UNet of the largest depth, with bridges, has decoded its encoder's list
C23_Witness ==
    /\ net.kind = "UNet" /\ net.bridge /\ net.depth = MaxDepth
    /\ nnPc = "done"
    /\ Len(decoded.popped) = MaxDepth
    /\ decoded.popped[1] # decoded.popped[MaxDepth]
    /\ heap[encoded] = <<>>

\* lists of the length of l that end with the last item of l and differ
\* from l at some earlier level: one level replaced by a foreign tensor, or
\* all earlier levels taken from the encoding of another batch
Variants(l) ==
    { [l EXCEPT ![i] = [op |-> "foreign", id |-> i]] : i \in 1 .. (Len(l) - 1) }
    \cup { [k \in 1 .. Len(l) |->
               IF k = Len(l) THEN l[k] ELSE EncoderLevel(k, x)] : x \in Batches }

\* C24: with bridge = False the result of TransformerDecoder.forward is the
\* same for every list of encoder outputs that has the same last item, the
\* bottleneck, whatever its earlier levels hold.
C24_BottleneckOnly ==
    (TransformerDecoded /\ ~net.bridge) =>
        \A v \in Variants(decoded.before) :
            /\ Last(v) = Last(decoded.before)
            /\ nnOut[decoded.owner] =
                  Softmax(TransformerDecoder(decoded.owner, DecoderDepth(net.depth),
                                             net.bridge, v).out)

\* a decoder without bridges has run on a list of several levels, and a
\* list with other earlier levels exists
C24_Witness ==
    /\ TransformerDecoded /\ ~net.bridge
    /\ net.depth > 1
    /\ nnOut[decoded.owner] # NoTensor
    /\ \E v \in Variants(decoded.before) :
          /\ v # decoded.before
          /\ v[1] # decoded.before[1]

\* forward of a multitask network is past its encoder call
Multitask ==
    /\ net.kind \in {"MultitaskUNet", "MultitaskUCNN"}
    /\ nnPc # "idle"

\* C30: in MultitaskUNet.forward and MultitaskUCNN.forward every decoder is
\* called with a list of its own, so the list e still holds all encoder
\* levels after a decoder has run, however many items that decoder popped:
\* the value decoder is given all levels and the classification heads read
\* the bottleneck.
C30_EncoderListKept ==
    Multitask =>
        /\ nnPc # "failed"
        /\ \E x \in Batches :
              /\ heap[encoded] = TransformerEncoder(net.depth, x)
              /\ nnPc = "done" =>
                    nnOut.alignment =
                        ClassificationHead("alignment", EncoderLevel(net.depth, x))
              /\ (nnPc = "done" /\ net.kind = "MultitaskUNet") =>
                    nnOut.rotation =
                        ClassificationHead("rotation", EncoderLevel(net.depth, x))
        /\ decoded.owner # None =>
              /\ decoded.given # encoded
              /\ decoded.before = heap[encoded]
              /\ decoded.err = None
        /\ nnPc \in {"valued", "done"} =>
              /\ decoded.owner = "value"
              /\ nnOut.segmentation # NoTensor /\ nnOut.value # NoTensor

\* forward of a MultitaskUNet of the largest depth has returned: both
\* decoders emptied the list they were given, e holds every level
C30_Witness ==
    /\ net.kind = "MultitaskUNet" /\ net.depth = MaxDepth
    /\ nnPc = "done"
    /\ Len(heap) = 3
    /\ heap[2] = <<>> /\ heap[3] = <<>>
    /\ Len(heap[encoded]) = MaxDepth
    /\ nnOut.rotation # NoTensor

\* thread t has rendered both patches of a draw
Drawn(t) == th[t].at # NoState

\* C25: a thread whose replay renders another state than the one it set,
\* so that its input and target patches are rendered at different states,
\* exists only when the threads share the view without a lock; with the
\* lock held around each whole draw every draw replays its own state.
C25_MemoRace ==
    \A t \in Threads :
        /\ (Drawn(t) /\ th[t].at # th[t].s1) => ~locking
        /\ (Drawn(t) /\ locking) =>
              /\ th[t].at = th[t].s1
              /\ th[t].Y = th[t].X
        /\ Drawn(t) =>
              /\ th[t].X = Render(av, th[t].s1.center, th[t].s1.rotation,
                                   th[t].s1.zoom)
              /\ th[t].Y = Render(av, th[t].at.center, th[t].at.rotation,
                                   th[t].at.zoom)

\* without the lock: a thread set s1, the other thread set s2 in between,
\* and the replay rendered s2: the target patch differs from the input
C25_Witness ==
    /\ ~locking
    /\ \E t \in Threads :
          /\ th[t].pc = "replayed"
          /\ th[t].at # th[t].s1
          /\ th[t].at = th[3 - t].s1
          /\ th[t].Y # th[t].X

\* some state of the sampling range yields an input view the loop accepts
Acceptable == Accepted[kind][AsConstructed(InputView)] # {}

\* C26: if some viewport state of the sampling range yields an input view
\* of standard deviation >= 10 and the draws are fair, the rejection loop of
\* each dataset is eventually left and __getitem__ returns a document
\* sample.
C26_LoopExits ==
    (pc = "loop" /\ Acceptable) ~> (pc = "idle" /\ ret.kind = kind /\ ret.doc)

\* the loop has rejected a draw on a page that has states it accepts
C26_Witness ==
    /\ pc = "loop" /\ handed # <<>>
    /\ std < StdThreshold
    /\ Acceptable

\* the deviations from the accepted base rotation that the skew draw can
\* give to the rotation the sample is rendered at
SkewDeviations ==
    { SegSample(views, center, rotation, zoom, k).at.X.rotation - rotation :
          k \in SkewRand }

\* C27: the skew of SegmentationDataset.__getitem__ is two-sided: whenever
\* the loop has accepted a base orientation, the skew draw can render the
\* sample at a rotation above the base, at one below it and at the base.
C27_TwoSidedSkew ==
    (kind = "seg" /\ pc = "loop" /\ std >= StdThreshold) =>
        /\ \E d \in SkewDeviations : d > 0
        /\ \E d \in SkewDeviations : d < 0
        /\ 0 \in SkewDeviations

\* C28: a completed document draw of SegmentationDataset.__getitem__ leaves
\* the last-state memos of view, segmentation and value equal to each other
\* and to the skew-adjusted state the sample was rendered at; the state that
\* self.view recorded in the acceptance loop is overwritten, and the memo
\* differs from it whenever the skew is not zero.
C28_MemosAfterDraw ==
    [][ SegReturns =>
            /\ views.view.state = ViewportState(center, rotation, zoom)
            /\ views'.view.state = ret'.at.X
            /\ views'.segmentation.state = views'.view.state
            /\ views'.value.state = views'.view.state
            /\ ret'.at.X.center = center /\ ret'.at.X.zoom = zoom
            /\ ret'.at.X.rotation # rotation => views'.view.state # views.view.state
      ]_vars

\* a document draw has returned a skewed sample and the three memos hold
\* the skewed state
C28_Witness ==
    /\ DocSample({"seg"})
    /\ ret.at.X.rotation # 90 * (ret.Y3 - 1)
    /\ views.view.state = ret.at.X
    /\ views.value.state = ret.at.X

\* the classes __getitem__ of the constructed dataset can return as Y3
DatasetClasses ==
    { 0 : k \in { j \in Rand : Below(j, cfg.unknown) } }
        \cup { AlignmentTarget(r) : r \in UNION { MtRotations(k) : k \in Rand } }

\* the estimate runs with the configuration of the constructed dataset
SameConfiguration ==
    /\ gwArgs.threshold = cfg.threshold
    /\ gwArgs.unknown = cfg.unknown

\* the dataset was constructed with the defaults of its __init__
DefaultDataset ==
    cfg = [unknown |-> DatasetDefaults.unknown,
           threshold |-> DatasetDefaults.threshold]

\* the class the try that has just run appended to x
Appended == gwX'[Len(gwX')]

\* C29: get_alignment_weight simulates the label process of
\* MultitaskPretrainingDataset: the class it appends for a rotation r is the
\* class __getitem__ assigns to r, it draws r from the same aligned/free
\* mixture, and called with its defaults on a dataset constructed with its
\* defaults it runs the dataset's configuration, so every class it appends
\* is one the dataset returns.
C29_SameLabelProcess ==
    [][ Len(gwX') = Len(gwX) + 1 =>
          /\ (Appended # 0 /\ gwArgs.threshold = cfg.threshold) =>
                 Appended = AlignmentTarget(gwR')
          /\ \A k \in Rand : WeightRotations(k, gwArgs.aligned) = MtRotations(k)
          /\ (gwArgs = WeightDefaults /\ DefaultDataset) =>
                 /\ SameConfiguration
                 /\ Appended \in DatasetClasses
      ]_vars

====
